---- MODULE Spec2Model ----
(***************************************************************************)
(* Stack coordination engine of the stackable sheets: the provider's       *)
(* registry of sheet records (sheets), the removal timers scheduled by     *)
(* closeSheet, and the sheet instances (open flag, open effect, dialog     *)
(* content) that drive it.                                                 *)
(*                                                                         *)
(* The repository holds three versions of the component:                   *)
(*   "current"  src/src/components/ui/stackable-sheet.tsx, lines 1-464     *)
(*              records {id, isOpen}; controlled or uncontrolled open flag; *)
(*              no outside-interaction handlers                            *)
(*   "position" src/src/components/ui/stackable-sheet.tsx, lines 466-783   *)
(*              records {id, isOpen, position}; outside-interaction gate   *)
(*   "zorder"   src/components/ui/stackable-sheet.tsx                      *)
(*              records {id, zIndex, isOpen}; re-open promotes the zIndex; *)
(*              Dialog.Root onOpenChange={setOpen}                         *)
(* The variable variant selects the version; it never changes.             *)
(*                                                                         *)
(* Every StackableSheet is mounted throughout, with its open flag false at *)
(* the start.  React runs each setSheets updater once (production build).  *)
(* All removal timers of a version have the same delay, so they fire in    *)
(* the order in which closeSheet scheduled them.  The modal surface        *)
(* (Radix Dialog) is the environment: it delivers open, close and          *)
(* outside-interaction events while the dialog content is mounted, and     *)
(* unmounts the content when the exit animation of a closed dialog ends.   *)
(*                                                                         *)
(* The geometry of a sheet (getSheetStyles) is computed at render from the *)
(* registry state, the instance's props (side, base size, stack spacing,   *)
(* viewport padding) and the window; props and window are arguments of the *)
(* operators and range over Sides, Configs and Windows.  Lengths are px,   *)
(* scale and opacity are in hundredths, durations are ms.  The hooks that  *)
(* hand out the capabilities read the ambient context and are operators of *)
(* the scope they are called in.  The geometry props given on a sheet      *)
(* instance are a partial record (SheetProps) resolved against the         *)
(* provider's configuration; the parts of the geometry that depend on the  *)
(* reversed position only (offset amount, scale, opacity) are operators of *)
(* the position and are evaluated on Positions, beyond the depth of the    *)
(* stacks the bounded registry reaches.                                    *)
(*                                                                         *)
(* Spec mounts every instance under the provider for good.  NestedSpec     *)
(* nests them as the demo does: instance i + 1 is rendered inside the      *)
(* dialog content of instance i and unmounts with it.                      *)
(***************************************************************************)
EXTENDS Integers, Sequences, FiniteSets

\* ---- bounds of the model -------------------------------------------------
NumSheets == 3      \* sheet instances mounted under the provider
MaxRecords == 3     \* cap on the length of the registry array
MaxTimers == 2      \* cap on the number of pending removal timers
MaxZIndex == 4      \* cap on the order value (zIndex) of a record

Ids == 1..NumSheets
Variants == {"current", "position", "zorder"}

VARIABLES
    variant,        \* which version of the component is running
    controlled,     \* set of instances whose open flag is supplied by the caller
    sheets,         \* provider state: sequence of SheetInfo records
    timers,         \* pending removal timers (setTimeout), oldest first
    open,           \* open[i]: the instance's open flag
    pendingEffect,  \* pendingEffect[i]: the open effect has not yet run
    present,        \* present[i]: the dialog content of instance i is mounted
    openOrder,      \* history: ids holding a record, by their latest openSheet call
    signal          \* history: the set holding the sheet the last step delivered
                    \* an outside interaction to, empty after any other step

vars == <<variant, controlled, sheets, timers, open, pendingEffect,
          present, openOrder, signal>>

\* ---- helpers -------------------------------------------------------------
Max(a, b) == IF a >= b THEN a ELSE b

RECURSIVE SeqMaxOrder(_, _)
SeqMaxOrder(s, acc) ==
    IF s = <<>> THEN acc ELSE SeqMaxOrder(Tail(s), Max(acc, Head(s).order))

\* prev.reduce((max, sheet) => Math.max(max, sheet.zIndex), 0)
highestZIndex(prev) == SeqMaxOrder(prev, 0)

\* prev.some((sheet) => sheet.id === id)
hasRecord(prev, id) == \E k \in DOMAIN prev : prev[k].id = id

hasOpenRecord(prev, id) == \E k \in DOMAIN prev : prev[k].id = id /\ prev[k].isOpen

hasClosingRecord(prev, id) == \E k \in DOMAIN prev : prev[k].id = id /\ ~prev[k].isOpen

RecordsOf(prev, id) == SelectSeq(prev, LAMBDA s : s.id = id)

Without(q, id) == SelectSeq(q, LAMBDA x : x # id)

\* ---- Stack Registry ------------------------------------------------------
\* the Open Stack view without its filter: every record, closing ones included
allSheetsOf(prev) == prev

\* sheets.filter((sheet) => sheet.isOpen): the Open Stack view
openSheetsOf(prev) == SelectSeq(prev, LAMBDA s : s.isOpen)

\* openSheet of the zorder version renumbering the zIndex of the other records
\* by their place in the array before it puts the opened one on top
openSheetCompacting(prev, id) ==
    IF variant = "zorder"
    THEN LET compacted == [k \in DOMAIN prev |->
                              IF prev[k].id = id
                              THEN [prev[k] EXCEPT !.isOpen = TRUE, !.order = Len(prev) + 1]
                              ELSE [prev[k] EXCEPT !.order = k]]
         IN  IF hasRecord(prev, id)
             THEN compacted
             ELSE Append(compacted, [id |-> id, isOpen |-> TRUE, order |-> Len(prev) + 1])
    ELSE Append(prev, [id |-> id, isOpen |-> TRUE,
                       order |-> IF variant = "position" THEN Len(prev) ELSE 0])

\* the updater of openSheet
openSheet(prev, id) ==
    CASE variant = "current" ->
            Append(prev, [id |-> id, isOpen |-> TRUE, order |-> 0])
      [] variant = "position" ->
            Append(prev, [id |-> id, isOpen |-> TRUE, order |-> Len(prev)])
      [] variant = "zorder" ->
            IF hasRecord(prev, id)
            THEN [k \in DOMAIN prev |->
                    IF prev[k].id = id
                    THEN [prev[k] EXCEPT !.isOpen = TRUE,
                                         !.order = highestZIndex(prev) + 1]
                    ELSE prev[k]]
            ELSE Append(prev, [id |-> id, isOpen |-> TRUE,
                               order |-> highestZIndex(prev) + 1])

\* closeSheet deleting the record at once instead of marking it
closeSheetDeleting(prev, id) == SelectSeq(prev, LAMBDA s : s.id # id)

\* closeSheet marking the record of id and every record above it
closeSheetAbove(prev, id) ==
    [k \in DOMAIN prev |->
        IF \E j \in 1..k : prev[j].id = id
        THEN [prev[k] EXCEPT !.isOpen = FALSE] ELSE prev[k]]

\* the updater of closeSheet: the array it returns
closeSheet(prev, id) ==
    [k \in DOMAIN prev |->
        IF prev[k].id = id THEN [prev[k] EXCEPT !.isOpen = FALSE] ELSE prev[k]]

\* closeSheet without its setTimeout call
scheduleRemovalOmitted(q, prev, id) == q

\* closeSheet keeping one timer handle: the new timer replaces the pending ones
scheduleRemovalSingleTimer(q, prev, id) == <<id>>

\* the updater of closeSheet: the removal timers it schedules
scheduleRemoval(q, prev, id) ==
    IF variant = "zorder" /\ ~hasRecord(prev, id)
    THEN q
    ELSE Append(q, id)

\* the timer callback deleting every closing record
removeSheetClosing(currentSheets, id) == SelectSeq(currentSheets, LAMBDA s : s.isOpen)

\* the timer callback: currentSheets.filter((sheet) => sheet.id !== id)
removeSheet(currentSheets, id) == SelectSeq(currentSheets, LAMBDA s : s.id # id)

\* isTopSheet testing membership of the open sheets instead of openSheets.at(-1)
isTopSheetSome(id) == hasOpenRecord(sheets, id)

isTopSheet(id) ==
    LET openSheets == openSheetsOf(sheets)
    IN  Len(openSheets) > 0 /\ openSheets[Len(openSheets)].id = id

isFirstSheet(id) ==
    LET openSheets == openSheetsOf(sheets)
    IN  Len(openSheets) > 0 /\ openSheets[1].id = id

\* ---- Sheet Instance ------------------------------------------------------
isControlled(i) == i \in controlled

NoPendingEffect == \A i \in Ids : ~pendingEffect[i]

\* setOpen(true): trigger activation, or the caller setting the controlled flag
SetOpen(i) ==
    /\ NoPendingEffect
    /\ ~open[i]
    /\ Len(sheets) < MaxRecords
    /\ highestZIndex(sheets) < MaxZIndex
    /\ open' = [open EXCEPT ![i] = TRUE]
    /\ pendingEffect' = [pendingEffect EXCEPT ![i] = TRUE]
    /\ present' = [present EXCEPT ![i] = TRUE]
    /\ signal' = {}
    /\ UNCHANGED <<variant, controlled, sheets, timers, openOrder>>

\* useEffect(() => { if (open) openSheet(sheetId) }, [open, openSheet, sheetId])
OpenEffect(i) ==
    /\ pendingEffect[i]
    /\ pendingEffect' = [pendingEffect EXCEPT ![i] = FALSE]
    /\ sheets' = openSheet(sheets, i)
    /\ openOrder' = Append(Without(openOrder, i), i)
    /\ signal' = {}
    /\ UNCHANGED <<variant, controlled, timers, open, present>>

\* the provider's closeSheet(id): marks the records and schedules the removal
RegistryClose(i) ==
    /\ sheets' = closeSheet(sheets, i)
    /\ timers' = scheduleRemoval(timers, sheets, i)

CanSchedule == Len(timers) < MaxTimers

\* handleOpenChange(false) of the current and position versions;
\* in the zorder version Dialog.Root's onOpenChange is setOpen itself
handleOpenChangeFalse(i) ==
    /\ IF variant = "zorder"
       THEN UNCHANGED <<sheets, timers>>
       ELSE CanSchedule /\ RegistryClose(i)
    /\ open' = [open EXCEPT ![i] = FALSE]

\* the dialog's own close paths: the close control, the escape key
DialogClose(i) ==
    /\ NoPendingEffect
    /\ present[i]
    /\ handleOpenChangeFalse(i)
    /\ signal' = {}
    /\ UNCHANGED <<variant, controlled, pendingEffect, present, openOrder>>

\* the close function handed to the sheet's content:
\* current: close: () => handleOpenChange(false);
\* zorder: closeSheet = () => closeSheetById(sheetId)
CapabilityClose(i) ==
    /\ NoPendingEffect
    /\ present[i]
    /\ variant # "position"
    /\ IF variant = "zorder"
       THEN CanSchedule /\ RegistryClose(i) /\ UNCHANGED open
       ELSE handleOpenChangeFalse(i)
    /\ signal' = {}
    /\ UNCHANGED <<variant, controlled, pendingEffect, present, openOrder>>

\* onPointerDownOutside / onInteractOutside of the position and zorder versions:
\* if (!isTop) e.preventDefault(); the current version passes no handler
dismissPrevented(i) == variant # "current" /\ ~isTopSheet(i)

\* the modal surface delivers an outside pointer or focus event to sheet i
OutsideInteraction(i) ==
    /\ NoPendingEffect
    /\ present[i]
    /\ IF dismissPrevented(i)
       THEN UNCHANGED <<sheets, timers, open>>
       ELSE handleOpenChangeFalse(i)
    /\ signal' = {i}
    /\ UNCHANGED <<variant, controlled, pendingEffect, present, openOrder>>

\* the caller of a controlled instance sets its flag to false itself
ControlledSetFalse(i) ==
    /\ NoPendingEffect
    /\ isControlled(i)
    /\ open[i]
    /\ open' = [open EXCEPT ![i] = FALSE]
    /\ signal' = {}
    /\ UNCHANGED <<variant, controlled, sheets, timers, pendingEffect,
                   present, openOrder>>

\* the exit animation of the closed dialog content ends and it unmounts
ExitAnimationEnd(i) ==
    /\ NoPendingEffect
    /\ present[i]
    /\ ~open[i]
    /\ present' = [present EXCEPT ![i] = FALSE]
    /\ signal' = {}
    /\ UNCHANGED <<variant, controlled, sheets, timers, open,
                   pendingEffect, openOrder>>

\* the oldest removal timer fires
TimerFire ==
    /\ timers # <<>>
    /\ sheets' = removeSheet(sheets, Head(timers))
    /\ timers' = Tail(timers)
    /\ openOrder' = Without(openOrder, Head(timers))
    /\ signal' = {}
    /\ UNCHANGED <<variant, controlled, open, pendingEffect, present>>

Init ==
    /\ variant \in Variants
    /\ controlled \in IF variant = "current" THEN {{}, {1}} ELSE {{}}
    /\ sheets = <<>>
    /\ timers = <<>>
    /\ open = [i \in Ids |-> FALSE]
    /\ pendingEffect = [i \in Ids |-> FALSE]
    /\ present = [i \in Ids |-> FALSE]
    /\ openOrder = <<>>
    /\ signal = {}

Next ==
    \/ \E i \in Ids : SetOpen(i)
    \/ \E i \in Ids : OpenEffect(i)
    \/ \E i \in Ids : DialogClose(i)
    \/ \E i \in Ids : CapabilityClose(i)
    \/ \E i \in Ids : OutsideInteraction(i)
    \/ \E i \in Ids : ControlledSetFalse(i)
    \/ \E i \in Ids : ExitAnimationEnd(i)
    \/ TimerFire

Spec == Init /\ [][Next]_vars

\* a scheduled setTimeout callback is eventually run by the event loop
FairSpec == Spec /\ WF_vars(TimerFire)

\* ---- nested instances (demo layout) ----------------------------------------

\* DemoSheetContent renders the DemoSheet of the next level inside the dialog
\* content of its own sheet: instance i + 1 is mounted while the content of
\* instance i is rendered; instance 1 is rendered by the page
mounted(i) == IF i = 1 THEN TRUE ELSE present[i - 1]

\* the instances rendered inside the content of instance i, directly or not
NestedIn(i) == {j \in Ids : j > i}

\* an operation of a mounted instance
InstanceStep(i) ==
    /\ mounted(i)
    /\ \/ SetOpen(i)
       \/ OpenEffect(i)
       \/ DialogClose(i)
       \/ CapabilityClose(i)
       \/ OutsideInteraction(i)
       \/ ControlledSetFalse(i)

\* the exit animation of the closed content of instance i ends: the content
\* unmounts and with it every instance nested in it, whose state is dropped;
\* the open effect has no cleanup, so the registry and the timers stay
ContentUnmount(i) ==
    /\ NoPendingEffect
    /\ mounted(i)
    /\ present[i]
    /\ ~open[i]
    /\ present' = [j \in Ids |-> IF j = i \/ j \in NestedIn(i) THEN FALSE ELSE present[j]]
    /\ open' = [j \in Ids |-> IF j \in NestedIn(i) THEN FALSE ELSE open[j]]
    /\ signal' = {}
    /\ UNCHANGED <<variant, controlled, sheets, timers, pendingEffect, openOrder>>

NestedNext ==
    \/ \E i \in Ids : InstanceStep(i)
    \/ \E i \in Ids : ContentUnmount(i)
    \/ TimerFire

\* the sheets nested as in the demo
NestedSpec == Init /\ [][NestedNext]_vars

\* ---- Geometry Calculator -------------------------------------------------
Sides == {"top", "right", "bottom", "left"}

\* the configurations the geometry is evaluated under: the provider's
\* defaults (baseSize 500, stackSpacing 32, viewportPadding 32; the zorder
\* version names them baseWidth and widthIncrement) and neighbours of them
Configs ==
    {[baseSize |-> b, stackSpacing |-> s, viewportPadding |-> p] :
        b \in {500}, s \in {24, 32}, p \in {0, 32}}

\* window.innerWidth / window.innerHeight: narrower than a sheet, leaving
\* room for less than one level, for less than two levels, and wide
Windows ==
    {[innerWidth |-> w, innerHeight |-> h] :
        w \in {480, 560, 600, 1280}, h \in {560, 800}}

Min(a, b) == IF a <= b THEN a ELSE b

\* const gap = 8
gap == 8

MAX_OFFSET_POSITION == 4

MAX_SCALE_POSITION == 4

\* the gap the version keeps between a sheet and its edge: the position
\* version has none
edgeGap == IF variant = "current" THEN gap ELSE 0

\* getTransformValue translating a right or bottom sheet the same way as a
\* left or top one (the edge relabelled, the sign not mirrored)
getTransformValueUnmirrored(side, offsetAmount) ==
    [axis |-> IF side \in {"right", "left"} THEN "X" ELSE "Y",
     px |-> offsetAmount + edgeGap]

\* the translation of the transform: its axis and its signed length in px
\* (translateX(calc(-${offsetAmount}px - ${gap}px)) is -(offsetAmount + gap))
getTransformValue(side, offsetAmount) ==
    CASE side = "right"  -> [axis |-> "X", px |-> 0 - offsetAmount - edgeGap]
      [] side = "left"   -> [axis |-> "X", px |-> offsetAmount + edgeGap]
      [] side = "top"    -> [axis |-> "Y", px |-> offsetAmount + edgeGap]
      [] side = "bottom" -> [axis |-> "Y", px |-> 0 - offsetAmount - edgeGap]

\* getMaxOffset without Math.max(0, ...)
getMaxOffsetSigned(side, baseSize, viewportPadding, window) ==
    LET extent == IF side \in {"right", "left"}
                  THEN window.innerWidth ELSE window.innerHeight
    IN  extent - baseSize - (viewportPadding + edgeGap)

\* getMaxOffset with effectivePadding = viewportPadding
getMaxOffsetWithoutGap(side, baseSize, viewportPadding, window) ==
    LET extent == IF side \in {"right", "left"}
                  THEN window.innerWidth ELSE window.innerHeight
    IN  Max(0, extent - baseSize - viewportPadding)

getMaxOffset(side, baseSize, viewportPadding, window) ==
    LET effectivePadding == viewportPadding + edgeGap
        extent == IF side \in {"right", "left"}
                  THEN window.innerWidth ELSE window.innerHeight
    IN  Max(0, extent - baseSize - effectivePadding)

\* an element without inline transform, scale or opacity
noTransform == [axis |-> "none", px |-> 0]

\* getSheetDimensions: offset is the clamped offset the transform is built
\* from; scale and opacity are in hundredths; size is the short axis
getSheetDimensions(side, baseSize, offsetAmount, viewportPadding, isClosing, scale, opacity, window) ==
    LET maxOffset == getMaxOffset(side, baseSize, viewportPadding, window)
        clampedOffset == Min(offsetAmount, maxOffset)
    IN  IF variant = "current"
        THEN IF isClosing
             THEN [size |-> baseSize, offset |-> 0,
                   transform |-> getTransformValue(side, 0),
                   scale |-> 100, opacity |-> 100]
             ELSE [size |-> baseSize, offset |-> clampedOffset,
                   transform |-> getTransformValue(side, clampedOffset),
                   scale |-> scale, opacity |-> opacity]
        ELSE IF isClosing
             THEN [size |-> baseSize, offset |-> 0, transform |-> noTransform,
                   scale |-> 100, opacity |-> 100]
             ELSE [size |-> baseSize, offset |-> clampedOffset,
                   transform |-> getTransformValue(side, clampedOffset),
                   scale |-> 100, opacity |-> 100]

\* [...openSheets].sort((a, b) => a.zIndex - b.zIndex): a stable sort
RECURSIVE sortByZIndex(_)
sortByZIndex(s) ==
    IF s = <<>> THEN <<>>
    ELSE LET rest == sortByZIndex(SubSeq(s, 1, Len(s) - 1))
             x == s[Len(s)]
         IN  SelectSeq(rest, LAMBDA y : y.order <= x.order) \o <<x>>
                 \o SelectSeq(rest, LAMBDA y : y.order > x.order)

\* the open sheets an instance derives its geometry from
openSheetsIn(prev) ==
    IF variant = "zorder" THEN sortByZIndex(openSheetsOf(prev)) ELSE openSheetsOf(prev)

\* list.findIndex((sheet) => sheet.id === id), zero-based, -1 when absent
findIndex(list, id) ==
    IF \E k \in DOMAIN list : list[k].id = id
    THEN (CHOOSE k \in DOMAIN list :
            list[k].id = id /\ \A j \in 1..(k - 1) : list[j].id # id) - 1
    ELSE 0 - 1

\* the position counted from the bottom of the open sheets instead of the top
positionFromBottomIn(prev, id) == findIndex(openSheetsIn(prev), id)

\* openSheets.length - positionInOpenSheets - 1
reversedPositionIn(prev, id) ==
    LET openSheets == openSheetsIn(prev)
        positionInOpenSheets == findIndex(openSheets, id)
    IN  Len(openSheets) - positionInOpenSheets - 1

\* the reversed positions the pure geometry is evaluated at
MaxPosition == 20
Positions == 0..MaxPosition

\* effectiveOffsetPosition * stackSpacing with effectiveOffsetPosition =
\* Math.min(reversedPosition, MAX_OFFSET_POSITION) (current); the position
\* version multiplies reversedPosition itself
offsetAmount(reversedPosition, stackSpacing) ==
    IF variant = "current"
    THEN LET effectiveOffsetPosition == Min(reversedPosition, MAX_OFFSET_POSITION)
         IN  effectiveOffsetPosition * stackSpacing
    ELSE reversedPosition * stackSpacing

\* the offset amount of instance id before clamping
offsetAmountOf(id, stackSpacing) ==
    offsetAmount(reversedPositionIn(sheets, id), stackSpacing)

\* Math.max(1 - effectiveScalePosition * 0.02, 0.9), in hundredths
scaleOf(reversedPosition) ==
    LET effectiveScalePosition == Min(reversedPosition, MAX_SCALE_POSITION)
    IN  Max(100 - effectiveScalePosition * 2, 90)

\* an opacity without its floor
opacityUnfloored(reversedPosition) == 100 - reversedPosition * 5

\* Math.max(1 - reversedPosition * 0.05, 0.2), in hundredths
opacityOf(reversedPosition) == Max(100 - reversedPosition * 5, 20)

\* the style object of instance id attached to side under configuration cfg:
\* styles (current), getSheetStyles (position, zorder)
getSheetStyles(id, side, cfg, window) ==
    IF ~hasRecord(sheets, id)
    THEN [size |-> cfg.baseSize, offset |-> 0, transform |-> noTransform,
          scale |-> 100, opacity |-> 100]
    ELSE
      LET currentSheet == sheets[findIndex(sheets, id) + 1]
          isClosing == ~currentSheet.isOpen
          reversedPosition == reversedPositionIn(sheets, id)
          scale == scaleOf(reversedPosition)
          opacity == opacityOf(reversedPosition)
      IN  IF variant = "zorder"
          THEN IF isClosing
               THEN [size |-> cfg.baseSize, offset |-> 0,
                     transform |-> [axis |-> "X",
                                    px |-> IF side = "right" THEN 100 ELSE 0 - 100],
                     scale |-> 100, opacity |-> 0]
               ELSE [size |-> cfg.baseSize + reversedPosition * cfg.stackSpacing,
                     offset |-> 0, transform |-> noTransform,
                     scale |-> 100, opacity |-> 100]
          ELSE getSheetDimensions(side, cfg.baseSize,
                                  offsetAmountOf(id, cfg.stackSpacing),
                                  cfg.viewportPadding, isClosing,
                                  scale, opacity, window)

\* the instance's isFirst: isFirstSheet(sheetId) in the current and position
\* versions; in the zorder version the first of the open sheets sorted by zIndex
isFirst(i) ==
    IF variant = "zorder"
    THEN LET sortedOpenSheets == sortByZIndex(openSheetsOf(sheets))
         IN  Len(sortedOpenSheets) > 0 /\ sortedOpenSheets[1].id = i
    ELSE isFirstSheet(i)

\* the overlay of the current version without the isFirst condition on its
\* dimming classes
rendersOverlay(i) == present[i]

\* instance i renders the dimmed backdrop: the overlay of the current version
\* carries bg-black/50 backdrop-blur-sm only if isFirst; the position and
\* zorder versions render the overlay only if isFirst
rendersBackdrop(i) == present[i] /\ isFirst(i)

\* the delay of the removal timer in ms: setTimeout(..., 300) in the current
\* and position versions, setTimeout(..., 500) in the zorder version
removalDelay == IF variant = "zorder" THEN 500 ELSE 300

\* the declared duration of the exit transition in ms:
\* data-[state=closed]:duration-400, data-[state=closed]:duration-500 (zorder)
exitDuration == IF variant = "zorder" THEN 500 ELSE 400

\* ---- capability access ----------------------------------------------------
\* where in the component tree a hook is called
Scopes == {"outside provider", "inside provider", "inside sheet"}

\* the Registry capability: useSheetContext (current), useSheet (position,
\* zorder): if (!context) throw new Error(...); return context
useSheetContext(scope) ==
    IF scope = "outside provider" THEN "raised" ELSE "registry"

\* the current-sheet capability: useSheet of the current version throws
\* without a CurrentSheetContext; useSheet of the zorder version throws only
\* without a SheetContext and returns the provider's context when there is
\* no instance context; the position version has no such capability
useSheet(scope) ==
    CASE variant = "current" ->
            IF scope = "inside sheet" THEN "current sheet" ELSE "raised"
      [] variant = "zorder" ->
            IF scope = "outside provider" THEN "raised"
            ELSE IF scope = "inside sheet" THEN "current sheet" ELSE "registry"
      [] variant = "position" -> useSheetContext(scope)

\* ---- per-sheet configuration ----------------------------------------------

\* the geometry inputs: baseSize, stackSpacing, viewportPadding (baseWidth and
\* widthIncrement in the zorder version, which has no viewportPadding)
ConfigFields == {"baseSize", "stackSpacing", "viewportPadding"}

\* the geometry props of a sheet instance: each of the three is given or
\* absent (not in the domain); a given stackSpacing is 0
SheetProps ==
    {[f \in given |-> CASE f = "baseSize" -> 400
                        [] f = "stackSpacing" -> 0
                        [] f = "viewportPadding" -> 16] :
        given \in SUBSET ConfigFields}

\* a resolution with || in place of ??: a given 0 falls back to the provider
sheetConfigFalsy(props, context) ==
    [f \in ConfigFields |->
        IF f \in DOMAIN props /\ props[f] # 0 THEN props[f] ELSE context[f]]

\* sheetBaseSize ?? contextBaseSize and its two siblings (current, position);
\* sheetBaseWidth !== undefined ? sheetBaseWidth : contextBaseWidth (zorder)
sheetConfig(props, context) ==
    [f \in ConfigFields |->
        IF f \in DOMAIN props THEN props[f] ELSE context[f]]

\* the style object of instance id when the instances carry the props propsOf
\* and the provider the configuration context
instanceStyles(id, side, propsOf, context, window) ==
    getSheetStyles(id, side, sheetConfig(propsOf[id], context), window)

\* ---- z-index (zorder version) ----------------------------------------------

\* const baseZIndex = 50, and the z-50 class of the dialog content
baseZIndex == 50

\* the z-30 class of the overlay
overlayZIndex == 30

\* a z-index computed from the place of the record in the array
calculatedZIndexByArray(id) ==
    IF hasOpenRecord(sheets, id)
    THEN baseZIndex + findIndex(openSheetsOf(sheets), id)
    ELSE baseZIndex

\* the z-index of the content of instance id: calculatedZIndex = baseZIndex +
\* positionInOpenSheets in the style of an open sheet; a closing sheet and a
\* sheet without record have no inline z-index and keep the z-50 of the class
calculatedZIndex(id) ==
    IF hasOpenRecord(sheets, id)
    THEN LET openSheets == sortByZIndex(openSheetsOf(sheets))
             positionInOpenSheets == findIndex(openSheets, id)
         IN  baseZIndex + positionInOpenSheets
    ELSE baseZIndex

\* ---- claims --------------------------------------------------------------
CountOf(q, id) == Len(SelectSeq(q, LAMBDA x : x = id))

\* the step is the firing of the removal timer of id
FiresTimerOf(id) == timers # <<>> /\ Head(timers) = id /\ timers' = Tail(timers)

\* C1: when a sheet was closed and opened again before its removal timer
\* fired, the firing of that timer does not delete the reopened record: the
\* Registry still holds a record for the id with isOpen = TRUE afterwards.
C1_ReopenedRecordSurvivesTimer ==
    [][\A id \in Ids :
        (FiresTimerOf(id) /\ hasOpenRecord(sheets, id)) => hasOpenRecord(sheets', id)]_vars

\* C2: close on a record that is already closing schedules no further removal
\* timer, so at most one removal timer is pending per id in every reachable state.
C2_AtMostOneTimerPerId == \A id \in Ids : CountOf(timers, id) <= 1

\* C3: the Registry's collection holds at most one record per id.
C3_AtMostOneRecordPerId == \A id \in Ids : Len(RecordsOf(sheets, id)) <= 1

\* C4: an outside-interaction signal delivered to a sheet of the Open Stack
\* that is not its topmost sheet is suppressed: it changes neither the
\* Registry, nor the pending timers, nor any open flag; delivered to the
\* topmost open sheet it closes that sheet (its open flag becomes false).
C4_OutsideInteractionGate ==
    [][\A i \in Ids :
        signal' = {i} =>
            IF isTopSheet(i)
            THEN ~open'[i]
            ELSE hasOpenRecord(sheets, i) =>
                    /\ sheets' = sheets
                    /\ timers' = timers
                    /\ open' = open]_vars

\* the ids that hold an open record, from the earliest to the latest opened
OpenByRecency == SelectSeq(openOrder, LAMBDA id : hasOpenRecord(sheets, id))

\* C5: isTop(id) is true exactly for the most recently opened sheet among
\* those currently open and isFirst(id) exactly for the earliest opened one,
\* in every reachable state (so also in the state right after a close).
C5_TopIsLatestFirstIsEarliest ==
    \A id \in Ids :
        /\ isTopSheet(id) <=>
              (OpenByRecency # <<>> /\ OpenByRecency[Len(OpenByRecency)] = id)
        /\ isFirstSheet(id) <=>
              (OpenByRecency # <<>> /\ OpenByRecency[1] = id)

\* C6: isTop holds for at most one id and isFirst for at most one id; each
\* holds for exactly one id when the Open Stack is non-empty, for none when
\* it is empty.
C6_UniqueTopAndFirst ==
    LET n == IF openSheetsOf(sheets) # <<>> THEN 1 ELSE 0
    IN  /\ Cardinality({id \in Ids : isTopSheet(id)}) = n
        /\ Cardinality({id \in Ids : isFirstSheet(id)}) = n

C6_Witness ==
    /\ Len(openSheetsOf(sheets)) = 3
    /\ isTopSheet(3)
    /\ isFirstSheet(1)
    /\ ~isTopSheet(1)

\* C7: whenever no open effect is pending, an instance's open flag is true
\* if and only if the Registry holds a record for its id with isOpen = TRUE.
C7_OpenFlagMirrored ==
    NoPendingEffect => \A i \in Ids : open[i] <=> hasOpenRecord(sheets, i)

\* C8: a controlled and an uncontrolled instance drive the Registry
\* identically: whichever the mode, a transition of the instance's open flag
\* to false is the Registry's close(id), which marks its records closing and
\* schedules the removal.
C8_FlagFalseIsRegistryClose ==
    [][\A i \in Ids :
        (variant = "current" /\ open[i] /\ ~open'[i]) =>
            (sheets' = closeSheet(sheets, i) /\ timers' = Append(timers, i))]_vars

\* C9: under fair timer firing no record stays closing forever: a closing
\* record of id leads to a state without a closing record of id.
C9_ClosingEventuallyRemoved ==
    \A id \in Ids : hasClosingRecord(sheets, id) ~> ~hasClosingRecord(sheets, id)

\* closed, the record deleted by the timer, the exit animation still running
C9_Witness ==
    /\ present[1] /\ ~open[1]
    /\ ~hasRecord(sheets, 1)
    /\ CountOf(timers, 1) = 0
    /\ variant = "current"

\* C10: the step that closes an open record keeps the record and sets its
\* isOpen to false; the number of records of an id decreases only in the
\* step in which the removal timer of that id fires.
C10_CloseKeepsRecord ==
    [][\A id \in Ids :
        /\ Len(RecordsOf(sheets', id)) < Len(RecordsOf(sheets, id)) => FiresTimerOf(id)
        /\ (hasOpenRecord(sheets, id) /\ ~hasOpenRecord(sheets', id) /\ ~FiresTimerOf(id))
              => /\ hasClosingRecord(sheets', id)
                 /\ Len(RecordsOf(sheets', id)) = Len(RecordsOf(sheets, id))]_vars

\* a sheet just closed: its record is still held, marked closing
C10_Witness ==
    /\ ~open[2]
    /\ hasClosingRecord(sheets, 2)
    /\ ~hasOpenRecord(sheets, 2)
    /\ CountOf(timers, 2) = 1

\* C11: close(id) for an id that has no record is a no-op: it changes no
\* record and schedules no removal timer; isTop(id) and isFirst(id) are false
\* for such an id.
C11_UnknownIdCloseIsNoOp ==
    [][\A id \in Ids :
        ~hasRecord(sheets, id) =>
            /\ ~isTopSheet(id)
            /\ ~isFirstSheet(id)
            /\ RegistryClose(id) => (sheets' = sheets /\ timers' = timers)]_vars

\* C12: a record goes from open to closing only while its sheet is the
\* topmost sheet of the Open Stack.
C12_OnlyTopSheetCloses ==
    [][\A id \in Ids :
        (hasOpenRecord(sheets, id) /\ ~hasOpenRecord(sheets', id)
            /\ hasClosingRecord(sheets', id)) => isTopSheet(id)]_vars

\* the number of Open Stack entries above the topmost open record of id
StackDepthOf(id) ==
    LET openSheets == openSheetsOf(sheets)
        top == CHOOSE k \in DOMAIN openSheets :
                  /\ openSheets[k].id = id
                  /\ \A j \in DOMAIN openSheets : openSheets[j].id = id => j <= k
    IN  Len(openSheets) - top

\* the window leaves room for the whole stack: no offset is clamped
Roomy(cfg, window) ==
    \A side \in Sides :
        getMaxOffset(side, cfg.baseSize, cfg.viewportPadding, window)
            >= MaxRecords * cfg.stackSpacing

\* C13: in the versions that take a stack spacing, the offset of an open
\* sheet is its reversed position among the open sheets times the stack
\* spacing when nothing is clamped: 0, 32 and 64 for three open sheets under
\* spacing 32, 0 and 32 for two.
C13_OffsetIsReversedPositionTimesSpacing ==
    \A id \in Ids :
        (variant # "zorder" /\ hasOpenRecord(sheets, id)) =>
            \A side \in Sides, cfg \in Configs, window \in Windows :
                Roomy(cfg, window) =>
                    getSheetStyles(id, side, cfg, window).offset
                        = StackDepthOf(id) * cfg.stackSpacing

\* the sheet's style is computed from an open record
RenderedOpen(id) ==
    hasRecord(sheets, id) /\ sheets[findIndex(sheets, id) + 1].isOpen

ExtentOf(side, window) ==
    IF side \in {"right", "left"} THEN window.innerWidth ELSE window.innerHeight

\* C14 as stated: whenever the raw offset exceeds the room, viewport extent
\* minus base size minus padding (0 when that is negative), the applied
\* offset equals that room; otherwise it equals the raw offset.
C14_OffsetClampedToRoomWithoutGap ==
    \A id \in Ids :
        (variant # "zorder" /\ RenderedOpen(id)) =>
            \A side \in Sides, cfg \in Configs, window \in Windows :
                LET raw == offsetAmountOf(id, cfg.stackSpacing)
                    room == Max(0, ExtentOf(side, window) - cfg.baseSize
                                     - cfg.viewportPadding)
                IN  getSheetStyles(id, side, cfg, window).offset
                        = IF raw > room THEN room ELSE raw

\* C14: whenever the raw offset of an open sheet exceeds the room, which is
\* the viewport extent minus the base size minus the padding and the
\* version's edge gap (8 in the current version, none in the position
\* version), and 0 when that is negative, the applied offset equals the room;
\* otherwise it equals the raw offset.
C14_OffsetClampedToRoom ==
    \A id \in Ids :
        (variant # "zorder" /\ RenderedOpen(id)) =>
            \A side \in Sides, cfg \in Configs, window \in Windows :
                LET raw == offsetAmountOf(id, cfg.stackSpacing)
                    room == Max(0, ExtentOf(side, window) - cfg.baseSize
                                     - (cfg.viewportPadding + edgeGap))
                IN  getSheetStyles(id, side, cfg, window).offset
                        = IF raw > room THEN room ELSE raw

\* three open sheets in a window 560 wide: the bottom sheet's raw offset of
\* 64 is clamped to 560 - 500 - (32 + 8) = 20, the top sheet's 0 is not
C14_Witness ==
    LET cfg == [baseSize |-> 500, stackSpacing |-> 32, viewportPadding |-> 32]
        window == [innerWidth |-> 560, innerHeight |-> 800]
    IN  /\ variant = "current"
        /\ Len(sheets) = 3
        /\ \A k \in 1..3 : sheets[k].id = k /\ sheets[k].isOpen
        /\ offsetAmountOf(1, cfg.stackSpacing) = 64
        /\ getSheetStyles(1, "right", cfg, window).offset = 20
        /\ getSheetStyles(1, "top", cfg, window).offset = 64
        /\ getSheetStyles(3, "right", cfg, window).offset = 0

\* C15: while a sheet has a closing record its geometry is the resting
\* geometry wherever it was in the stack: stacking offset 0, scale 1 and
\* opacity 1.
C15_ClosingGeometryIsResting ==
    \A id \in Ids :
        hasClosingRecord(sheets, id) =>
            \A side \in Sides, cfg \in Configs, window \in Windows :
                LET style == getSheetStyles(id, side, cfg, window)
                IN  style.offset = 0 /\ style.scale = 100 /\ style.opacity = 100

\* C16: at most one sheet renders the dimmed backdrop, and the sheet that
\* renders it is the first (bottommost) sheet of the Open Stack, the stack
\* taken in the order the version presents it (by zIndex in the zorder
\* version, by array position otherwise); no sheet above it renders one.
C16_BackdropOnlyUnderFirstSheet ==
    /\ Cardinality({i \in Ids : rendersBackdrop(i)}) <= 1
    /\ \A i \in Ids :
          rendersBackdrop(i) =>
              /\ openSheetsIn(sheets) # <<>>
              /\ openSheetsIn(sheets)[1].id = i

\* three sheets displayed: the bottom one renders the backdrop, the two
\* stacked above it do not
C16_Witness ==
    /\ \A i \in Ids : present[i] /\ open[i] /\ hasOpenRecord(sheets, i)
    /\ rendersBackdrop(1)
    /\ ~rendersBackdrop(2)
    /\ ~rendersBackdrop(3)
    /\ reversedPositionIn(sheets, 1) = 2

\* C17: the Open Stack view never contains a record with isOpen = FALSE;
\* isTop(id) and isFirst(id) are never true for an id without an open record;
\* and a closing record never counts toward an open sheet's position: the
\* reversed position of every open sheet is what it is with the closing
\* records deleted.
C17_OpenStackHoldsOnlyOpenRecords ==
    /\ \A k \in DOMAIN openSheetsOf(sheets) : openSheetsOf(sheets)[k].isOpen
    /\ \A id \in Ids :
          (isTopSheet(id) \/ isFirstSheet(id) \/ isFirst(id)) => hasOpenRecord(sheets, id)
    /\ \A id \in Ids :
          hasOpenRecord(sheets, id) =>
              reversedPositionIn(sheets, id)
                  = reversedPositionIn(SelectSeq(sheets, LAMBDA r : r.isOpen), id)

\* a closing record lies below two open sheets and counts for neither
C17_Witness ==
    /\ Len(sheets) = 3
    /\ sheets[1].id = 1 /\ ~sheets[1].isOpen
    /\ sheets[2].id = 2 /\ sheets[2].isOpen
    /\ sheets[3].id = 3 /\ sheets[3].isOpen
    /\ isFirstSheet(2) /\ ~isFirstSheet(1)
    /\ isTopSheet(3)
    /\ reversedPositionIn(sheets, 2) = 1

\* C18: in the versions that translate a sheet by its offset, the translation
\* is symmetric in the edge: under the same configuration a sheet attached
\* right translates along X by the negative of what it translates attached
\* left, and attached bottom along Y by the negative of attached top; the
\* magnitude is the offset plus the version's edge gap.
C18_TranslationMirrorsWithEdge ==
    \A id \in Ids :
        (variant # "zorder" /\ RenderedOpen(id)) =>
            \A cfg \in Configs, window \in Windows :
                LET right == getSheetStyles(id, "right", cfg, window)
                    left == getSheetStyles(id, "left", cfg, window)
                    top == getSheetStyles(id, "top", cfg, window)
                    bottom == getSheetStyles(id, "bottom", cfg, window)
                IN  /\ right.transform.axis = "X" /\ left.transform.axis = "X"
                    /\ top.transform.axis = "Y" /\ bottom.transform.axis = "Y"
                    /\ right.transform.px = 0 - left.transform.px
                    /\ bottom.transform.px = 0 - top.transform.px
                    /\ left.transform.px = left.offset + edgeGap
                    /\ top.transform.px = top.offset + edgeGap

\* the bottom sheet of three, spacing 32, wide window, current version:
\* 72 px to the left when attached right, 72 px to the right when attached left
C18_Witness ==
    LET cfg == [baseSize |-> 500, stackSpacing |-> 32, viewportPadding |-> 32]
        window == [innerWidth |-> 1280, innerHeight |-> 800]
    IN  /\ variant = "current"
        /\ Len(openSheetsOf(sheets)) = 3
        /\ RenderedOpen(1)
        /\ getSheetStyles(1, "right", cfg, window).transform.px = 0 - 72
        /\ getSheetStyles(1, "left", cfg, window).transform.px = 72
        /\ getSheetStyles(1, "bottom", cfg, window).transform.px = 0 - 72
        /\ getSheetStyles(1, "top", cfg, window).transform.px = 72

\* C19: the removal delay equals the declared duration of the exit
\* transition in every state in which a removal timer is pending, so no
\* closing record is deleted before or kept after the end of its transition.
C19_RemovalDelayIsExitDuration ==
    timers # <<>> => removalDelay = exitDuration

\* C20: accessing the Registry capability outside a provider raises, and, in
\* the versions that have a current-sheet capability, accessing it outside a
\* sheet raises instead of returning a value; the access, a read of the
\* ambient context, changes no state.
C20_AccessOutsideScopeRaises ==
    \A scope \in Scopes :
        /\ scope = "outside provider" => useSheetContext(scope) = "raised"
        /\ (variant # "position" /\ scope # "inside sheet")
              => useSheet(scope) = "raised"

\* C21: each of base size, stack spacing and viewport padding that enters a
\* sheet's geometry is the value given on that instance when one is given and
\* the provider's value otherwise, and the props given on the other instances
\* do not enter it: the sheet's style is the one computed from exactly these
\* inputs whatever the other instances are given.
C21_OverridesResolvePerSheet ==
    \A own \in SheetProps : \A context \in {c \in Configs : c.viewportPadding = 32} :
        LET expected == [f \in ConfigFields |->
                            IF f \in DOMAIN own THEN own[f] ELSE context[f]]
            window == [innerWidth |-> 1280, innerHeight |-> 800]
        IN  /\ sheetConfig(own, context) = expected
            /\ \A id \in {i \in Ids : hasRecord(sheets, i)} :
               \A other \in {[f \in {} |-> 0],
                             [f \in ConfigFields |-> context[f] + 8]} :
                  LET propsOf == [j \in Ids |-> IF j = id THEN own ELSE other]
                  IN  instanceStyles(id, "right", propsOf, context, window)
                          = getSheetStyles(id, "right", expected, window)

\* two sheets are open under the provider's spacing 32; the lower one is given
\* stackSpacing 0 and rests at offset 0, the same sheet without props is
\* offset by 32
C21_Witness ==
    /\ variant = "current"
    /\ Len(sheets) = 2 /\ sheets[1].id = 1 /\ sheets[2].id = 2
    /\ sheets[1].isOpen /\ sheets[2].isOpen
    /\ LET context == [baseSize |-> 500, stackSpacing |-> 32, viewportPadding |-> 32]
           window == [innerWidth |-> 1280, innerHeight |-> 800]
           none == [f \in {} |-> 0]
       IN  /\ instanceStyles(1, "right", [j \in Ids |-> IF j = 1 THEN [stackSpacing |-> 0] ELSE none], context, window).offset = 0
           /\ instanceStyles(1, "right", [j \in Ids |-> none], context, window).offset = 32

\* the records of prev whose id differs from id, in their order
OthersOf(prev, id) == SelectSeq(prev, LAMBDA s : s.id # id)

\* C22: open(id) and close(id) change no field of a record whose id differs
\* from id, add and remove no such record and keep the order of those records;
\* when there is no record of id, open(id) leaves the existing records in
\* place and appends the new record after them with isOpen = TRUE.
C22_OpenCloseTouchOnlyOwnRecords ==
    [][\A id \in Ids :
          /\ (pendingEffect[id] /\ ~pendingEffect'[id]) =>
                /\ sheets' = openSheet(sheets, id)
                /\ OthersOf(sheets', id) = OthersOf(sheets, id)
                /\ ~hasRecord(sheets, id) =>
                      /\ Len(sheets') = Len(sheets) + 1
                      /\ SubSeq(sheets', 1, Len(sheets)) = sheets
                      /\ sheets'[Len(sheets')].id = id
                      /\ sheets'[Len(sheets')].isOpen
          /\ (sheets' = closeSheet(sheets, id) /\ sheets' # sheets) =>
                OthersOf(sheets', id) = OthersOf(sheets, id)]_vars

\* sheet 2 has been closed between the open sheets 1 and 3, which were opened
\* before it and are still open in place
C22_Witness ==
    /\ Len(sheets) = 3
    /\ sheets[1].id = 1 /\ sheets[1].isOpen
    /\ sheets[2].id = 2 /\ ~sheets[2].isOpen
    /\ sheets[3].id = 3 /\ sheets[3].isOpen

\* the queue q without its k-th element
DropAt(q, k) == SubSeq(q, 1, k - 1) \o SubSeq(q, k + 1, Len(q))

\* C23: every closing sheet has a pending removal timer of its own, and
\* whichever pending timer fires, the firing for id deletes the records of id
\* and nothing else: the records of the other ids, open or closing, keep their
\* content and order, and every other pending timer stays pending.
C23_TimerFiringDeletesOnlyItsId ==
    /\ [](/\ \A id \in Ids : hasClosingRecord(sheets, id) => CountOf(timers, id) >= 1
          /\ \A k \in DOMAIN timers :
                /\ ~hasRecord(removeSheet(sheets, timers[k]), timers[k])
                /\ OthersOf(removeSheet(sheets, timers[k]), timers[k])
                      = OthersOf(sheets, timers[k]))
    /\ [][Len(timers') < Len(timers) =>
             \E k \in DOMAIN timers :
                /\ timers' = DropAt(timers, k)
                /\ ~hasRecord(sheets', timers[k])
                /\ OthersOf(sheets', timers[k]) = OthersOf(sheets, timers[k])]_vars

\* sheets 1 and 2 were closing at once; the timer of sheet 1 has fired during
\* its exit animation and has deleted its record, the record of sheet 2 is
\* still closing with its timer pending, and sheet 3 is still open
C23_Witness ==
    /\ ~hasRecord(sheets, 1) /\ present[1] /\ ~open[1]
    /\ Len(sheets) = 2
    /\ sheets[1].id = 2 /\ ~sheets[1].isOpen
    /\ sheets[2].id = 3 /\ sheets[2].isOpen
    /\ timers = <<2>>

\* C24: immediately after open(id), a re-open of an id that already has a
\* record included, id is the topmost sheet of the Open Stack: isTop(id) is
\* true, its reversed position is 0 and its offset is 0.
C24_OpenedSheetIsTopmost ==
    [][\A id \in Ids :
          (pendingEffect[id] /\ ~pendingEffect'[id]) =>
              /\ isTopSheet(id)'
              /\ reversedPositionIn(sheets', id) = 0
              /\ \A side \in Sides : \A cfg \in Configs : \A window \in Windows :
                    getSheetStyles(id, side, cfg, window)'.offset = 0]_vars

\* the step closes id, an open sheet that is neither the top nor the bottom of
\* the Open Stack
ClosesMiddleSheet(id) ==
    LET openSheets == openSheetsIn(sheets)
    IN  /\ hasOpenRecord(sheets, id)
        /\ sheets' = closeSheet(sheets, id)
        /\ Len(openSheets) >= 3
        /\ openSheets[1].id # id
        /\ openSheets[Len(openSheets)].id # id

\* the number of open records of id above the place of j in the Open Stack
OpenRecordsAbove(id, j) ==
    LET openSheets == openSheetsIn(sheets)
    IN  Cardinality({k \in DOMAIN openSheets :
                        k > findIndex(openSheets, j) + 1 /\ openSheets[k].id = id})

\* C25 as stated: when an open sheet that is neither the top nor the bottom of
\* the Open Stack is closed, the reversed position of each surviving open
\* sheet shifts by exactly one step.
C25_EverySurvivorShiftsByOne ==
    [][\A id \in Ids : ClosesMiddleSheet(id) =>
          \A j \in Ids \ {id} : hasOpenRecord(sheets, j) =>
              \/ reversedPositionIn(sheets', j) = reversedPositionIn(sheets, j) - 1
              \/ reversedPositionIn(sheets', j) = reversedPositionIn(sheets, j) + 1]_vars

\* C25: when an open sheet that is neither the top nor the bottom of the Open
\* Stack is closed, the reversed position of each surviving open sheet below
\* it decreases by one step for each open record of the closed sheet above it,
\* and the reversed position of each surviving open sheet above it stays as
\* it is.
C25_SurvivorsBelowShiftByOne ==
    [][\A id \in Ids : ClosesMiddleSheet(id) =>
          \A j \in Ids \ {id} : hasOpenRecord(sheets, j) =>
              /\ reversedPositionIn(sheets', j)
                    = reversedPositionIn(sheets, j) - OpenRecordsAbove(id, j)
              /\ OpenRecordsAbove(id, j) = 0 =>
                    reversedPositionIn(sheets', j) = reversedPositionIn(sheets, j)]_vars

\* sheet 2 has been closed between sheets 1 and 3: sheet 1 has moved up from
\* reversed position 2 to 1 and sheet 3 is still at 0
C25_Witness ==
    /\ Len(sheets) = 3 /\ timers = <<2>>
    /\ sheets[1].id = 1 /\ sheets[2].id = 2 /\ sheets[3].id = 3
    /\ ~hasOpenRecord(sheets, 2)
    /\ hasOpenRecord(sheets, 1) /\ reversedPositionIn(sheets, 1) = 1
    /\ hasOpenRecord(sheets, 3) /\ reversedPositionIn(sheets, 3) = 0
    /\ reversedPositionIn(openSheet(sheets, 2), 1) = 2

\* C26: the stacking offset before viewport clamping is
\* min(reversedPosition, 4) * stackSpacing, so that every open sheet at
\* reversed position 4 or deeper has the offset of the sheet at position 4.
C26_OffsetUsesCappedPosition ==
    variant # "zorder" =>
        /\ \A r \in Positions : \A stackSpacing \in {24, 32} :
              /\ offsetAmount(r, stackSpacing) = Min(r, 4) * stackSpacing
              /\ r >= 4 => offsetAmount(r, stackSpacing) = offsetAmount(4, stackSpacing)
        /\ \A id \in Ids : \A stackSpacing \in {24, 32} :
              hasOpenRecord(sheets, id) =>
                  offsetAmountOf(id, stackSpacing)
                      = Min(reversedPositionIn(sheets, id), 4) * stackSpacing

\* C27: for every reversed position r >= 0 of an open sheet,
\* scale = max(1 - min(r, 4) * 0.02, 0.9) and opacity = max(1 - r * 0.05, 0.2)
\* (here in hundredths): both are 1 at r = 0, are non-increasing in r and
\* never fall below their floors 0.9 and 0.2; the opacity is at its floor from
\* r = 16 on and only there; a sheet of the current version whose style is
\* computed from an open record is rendered with the scale and opacity of its
\* reversed position.
C27_ScaleAndOpacityBounded ==
    variant = "current" =>
        /\ \A r \in Positions :
              /\ scaleOf(r) = Max(100 - Min(r, 4) * 2, 90)
              /\ opacityOf(r) = Max(100 - r * 5, 20)
              /\ scaleOf(r) >= 90 /\ opacityOf(r) >= 20
              /\ opacityOf(r) = 20 <=> r >= 16
              /\ r < MaxPosition =>
                    /\ scaleOf(r + 1) <= scaleOf(r)
                    /\ opacityOf(r + 1) <= opacityOf(r)
        /\ scaleOf(0) = 100 /\ opacityOf(0) = 100
        /\ \A id \in Ids : RenderedOpen(id) =>
              LET style == getSheetStyles(id, "right", [baseSize |-> 500, stackSpacing |-> 32, viewportPadding |-> 32], [innerWidth |-> 1280, innerHeight |-> 800])
              IN  /\ style.scale = scaleOf(reversedPositionIn(sheets, id))
                  /\ style.opacity = opacityOf(reversedPositionIn(sheets, id))

\* three sheets are open in the current version: the bottom one, two steps
\* back, is rendered at scale 0.96 and opacity 0.90; sixteen steps back the
\* opacity is at its floor and one step before it is not
C27_Witness ==
    /\ variant = "current"
    /\ Len(openSheetsOf(sheets)) = 3 /\ reversedPositionIn(sheets, 1) = 2
    /\ LET style == getSheetStyles(1, "right", [baseSize |-> 500, stackSpacing |-> 32, viewportPadding |-> 32], [innerWidth |-> 1280, innerHeight |-> 800])
       IN  style.scale = 96 /\ style.opacity = 90
    /\ opacityOf(16) = 20 /\ opacityOf(15) = 25
    /\ scaleOf(4) = 92 /\ scaleOf(MaxPosition) = 92

\* C28: in every reachable state of the current version and for every
\* non-negative configuration, the offset o applied to a sheet satisfies
\* 0 <= o <= max(0, viewport extent - baseSize - (viewportPadding + 8)); when
\* the viewport extent is smaller than baseSize plus padding the maximum is 0
\* and every sheet's offset is 0.
C28_OffsetWithinRoom ==
    variant = "current" =>
        \A id \in Ids : \A side \in Sides : \A window \in Windows :
        \A cfg \in Configs \cup {[baseSize |-> 0, stackSpacing |-> 0, viewportPadding |-> 0]} :
            LET o == getSheetStyles(id, side, cfg, window).offset
                room == ExtentOf(side, window) - cfg.baseSize - (cfg.viewportPadding + 8)
            IN  /\ 0 <= o
                /\ o <= Max(0, room)
                /\ ExtentOf(side, window) < cfg.baseSize + cfg.viewportPadding =>
                      Max(0, room) = 0 /\ o = 0

\* two sheets are open in the current version: in a window 480 wide, narrower
\* than the base size, the lower sheet's raw offset 32 is brought to 0; in a
\* window 560 wide it is brought to the room 20
C28_Witness ==
    LET cfg == [baseSize |-> 500, stackSpacing |-> 32, viewportPadding |-> 32]
    IN  /\ variant = "current"
        /\ Len(sheets) = 2
        /\ \A k \in 1..2 : sheets[k].id = k /\ sheets[k].isOpen
        /\ offsetAmountOf(1, cfg.stackSpacing) = 32
        /\ getSheetStyles(1, "right", cfg, [innerWidth |-> 480, innerHeight |-> 800]).offset = 0
        /\ getSheetStyles(1, "right", cfg, [innerWidth |-> 560, innerHeight |-> 800]).offset = 20

\* C29: the order value of a record (zIndex in the zorder version, position in
\* the position version) is assigned monotonically: a record that is appended
\* or promoted by open(id) receives a value strictly greater than that of
\* every record then present, and the order values of the records present are
\* pairwise distinct in every reachable state.
C29_OrderValuesMonotoneAndDistinct ==
    /\ [](variant # "current" =>
             \A k1, k2 \in DOMAIN sheets : k1 # k2 => sheets[k1].order # sheets[k2].order)
    /\ [][variant # "current" =>
             \A id \in Ids : (pendingEffect[id] /\ ~pendingEffect'[id]) =>
                 \E k \in DOMAIN sheets' :
                    /\ sheets'[k].id = id /\ sheets'[k].isOpen
                    /\ \A j \in DOMAIN sheets : sheets'[k].order > sheets[j].order]_vars

\* C30: in the zorder version the z-index of an open sheet follows from its
\* place among the open sheets only: it is the base 50 plus the number of open
\* sheets below it, of any two open sheets the one later in the Open Stack has
\* the strictly greater z-index, and every open sheet's z-index is above the
\* backdrop's 30.
C30_ZIndexFollowsOpenStack ==
    variant = "zorder" =>
        LET openStack == openSheetsIn(sheets)
        IN  /\ \A k1, k2 \in DOMAIN openStack :
                  k1 < k2 => calculatedZIndex(openStack[k1].id) < calculatedZIndex(openStack[k2].id)
            /\ \A k \in DOMAIN openStack :
                  /\ overlayZIndex = 30
                  /\ calculatedZIndex(openStack[k].id) > overlayZIndex
                  /\ calculatedZIndex(openStack[k].id)
                        = 50 + Cardinality({j \in DOMAIN sheets :
                                               /\ sheets[j].isOpen
                                               /\ sheets[j].order < openStack[k].order})

\* sheets 1 and 2 were open and sheet 1 has been opened again: its record is
\* still first in the array but has the highest zIndex, and the sheet is
\* drawn above sheet 2
C30_Witness ==
    /\ variant = "zorder"
    /\ Len(sheets) = 2
    /\ sheets[1].id = 1 /\ sheets[1].isOpen
    /\ sheets[2].id = 2 /\ sheets[2].isOpen
    /\ sheets[1].order > sheets[2].order
    /\ calculatedZIndex(1) = 51 /\ calculatedZIndex(2) = 50

\* C31: every record with isOpen = TRUE belongs to a sheet instance that is
\* mounted: after a sheet has been closed while a sheet nested in its content
\* was open and the nested instance has unmounted, no open record of the
\* nested sheet remains, and whenever a sheet is displayed the top of the Open
\* Stack is a mounted sheet.
C31_OpenRecordsBelongToMountedSheets ==
    /\ \A k \in DOMAIN sheets : sheets[k].isOpen => mounted(sheets[k].id)
    /\ (\E i \in Ids : present[i] /\ open[i] /\ hasOpenRecord(sheets, i)) =>
          \E i \in Ids : mounted(i) /\ isTopSheet(i)

\* C32: in the zorder version the Open Stack in array order equals the Open
\* Stack in zIndex order in every reachable state, so that the provider's
\* isTopSheet and isFirstSheet (array order) and the instance's isFirst, width
\* and z-index (zIndex order) name the same top and bottom sheets.
C32_ArrayOrderIsZIndexOrder ==
    variant = "zorder" =>
        LET byArray == openSheetsOf(sheets)
            byZIndex == sortByZIndex(openSheetsOf(sheets))
        IN  /\ byArray = byZIndex
            /\ \A i \in Ids :
                  /\ isFirstSheet(i) <=> isFirst(i)
                  /\ isTopSheet(i) <=>
                        (Len(byZIndex) > 0 /\ byZIndex[Len(byZIndex)].id = i)

C34_TimerFiringKeepsOpenSheetsDerivations ==
    [][Len(timers') < Len(timers) =>
          \A j \in Ids : (hasOpenRecord(sheets, j) /\ hasOpenRecord(sheets', j)) =>
              /\ isTopSheet(j)' = isTopSheet(j)
              /\ isFirst(j)' = isFirst(j)
              /\ reversedPositionIn(sheets', j) = reversedPositionIn(sheets, j)
              /\ \A side \in Sides : \A cfg \in Configs : \A window \in Windows :
                    getSheetStyles(j, side, cfg, window)'.offset
                        = getSheetStyles(j, side, cfg, window).offset]_vars

\* sheet a is below sheet b in the Open Stack
Below(a, b) ==
    findIndex(openSheetsIn(sheets), a) < findIndex(openSheetsIn(sheets), b)

\* the step is an open, a close or a timer firing of sheet c
OperatesOn(c) ==
    \/ pendingEffect[c] /\ ~pendingEffect'[c]
    \/ sheets' = closeSheet(sheets, c) /\ sheets' # sheets
    \/ Len(timers') < Len(timers) /\ Head(timers) = c

\* C35: the relative order of two sheets in the Open Stack does not change
\* while they stay open: on every open, close and timer firing of another
\* sheet, two sheets that are open before and after the step are in the same
\* order before and after.
C35_OpenSheetsKeepRelativeOrder ==
    [][\A a, b \in Ids :
          /\ a # b
          /\ hasOpenRecord(sheets, a) /\ hasOpenRecord(sheets, b)
          /\ hasOpenRecord(sheets', a) /\ hasOpenRecord(sheets', b)
          /\ \E c \in Ids \ {a, b} : OperatesOn(c)
          /\ ~OperatesOn(a) /\ ~OperatesOn(b)
          => (Below(a, b)' <=> Below(a, b))]_vars

\* zorder version: sheet 1 was re-opened above sheet 2 and is first in the
\* array with the higher zIndex; sheet 3 has been opened on top of both, and
\* sheet 2 is still below sheet 1
C35_Witness ==
    /\ variant = "zorder"
    /\ Len(sheets) = 3
    /\ sheets[1].id = 1 /\ sheets[2].id = 2 /\ sheets[3].id = 3
    /\ \A k \in 1..3 : sheets[k].isOpen
    /\ sheets[1].order > sheets[2].order /\ sheets[3].order > sheets[1].order
    /\ Below(2, 1) /\ Below(1, 3)

TypeOK ==
    /\ variant \in Variants
    /\ controlled \subseteq Ids
    /\ Len(sheets) <= MaxRecords
    /\ Len(timers) <= MaxTimers
    /\ open \in [Ids -> BOOLEAN]
    /\ signal \subseteq Ids
====
